---- MODULE Spec2Model ----
(***************************************************************************)
(* SageMakerText2SpeechModel (model_provider/sagemaker/tts/tts.py).        *)
(*                                                                         *)
(* The state is what a caller of the class and the network can observe:    *)
(* the instance's client handle, the last operation's inputs and outcome,  *)
(* the generator object returned by _tts_invoke_streaming, the endpoint    *)
(* invocations and audio fetches made, and the chunks yielded.             *)
(*                                                                         *)
(* Python resolves a name that is neither a parameter nor assigned in the  *)
(* function body in the module's namespace and then in the builtins, and   *)
(* raises NameError when it is bound in neither.  The namespace of tts.py  *)
(* is modelled as the set of names its module-level statements bind.       *)
(***************************************************************************)
EXTENDS Integers, Sequences, FiniteSets, TLC

VARIABLES
    sagemaker_client,  \* self.sagemaker_client: NONE or a client handle
    req,               \* the call made on the instance, with its arguments
    res,               \* what the call returned or raised so far
    gen,               \* the generator _tts_invoke_streaming returned
    calls,             \* endpoint invocations made: <<[body, endpoint], ...>>
    running,           \* endpoint invocations executing now
    fetches,           \* audio fetches made
    emitted            \* chunks yielded: <<[seg, off, len], ...>>

vars == <<sagemaker_client, req, res, gen, calls, running, fetches, emitted>>

\* ---------------------------------------------------------------- values

\* Python's None, as a field value distinct from every string a caller passes.
NONE == "<None>"

\* bool(v) of an Optional[str]: None and "" are falsy.
Truthy(v) == v \notin {NONE, ""}

\* A dict with no key.
EmptyDict == [k \in {} |-> NONE]

\* Largest number of segments of a long text in the scenarios.
MaxSegs == 3

ShortText == "Hello world."

LongText(n) == "long" \o ToString(n)

Texts == {ShortText} \cup {LongText(n) : n \in 2..MaxSegs}

\* Number of segments the host's sentence splitter yields for a text.
NSeg(t) == IF t = ShortText THEN 1 ELSE CHOOSE n \in 2..MaxSegs : LongText(n) = t

\* The i-th segment of a text.
Segment(t, i) == IF t = ShortText THEN t ELSE t \o "#" \o ToString(i)

\* len(text): the short text has 12 characters, a long one 500 per segment.
TextLen(t) == IF t = ShortText THEN 12 ELSE 500 * NSeg(t)

\* ------------------------------------------------------------ TTSModelType

PresetVoice == "PresetVoice"
CloneVoice == "CloneVoice"
CloneVoice_CrossLingual == "CloneVoice_CrossLingual"
InstructVoice == "InstructVoice"

TTSModelType == {PresetVoice, CloneVoice, CloneVoice_CrossLingual, InstructVoice}

\* Mode strings a caller may pass: the four supported ones, an unknown one,
\* the empty string and None.
ModeInputs == TTSModelType \cup {"Whisper", "", NONE}

RoleInputs == {NONE, "", "r1"}
PromptTextInputs == {NONE, "", "pt"}
PromptAudioInputs == {NONE, "", "s3://pa"}
LangTagInputs == {NONE, "", "<|en|>"}
InstructTextInputs == {NONE, "", "it"}
EndpointInputs == {NONE, "ep1"}

\* ------------------------------------------------------ outcomes of a call

NoResult == [kind |-> "none", value |-> EmptyDict, errType |-> NONE, errMsg |-> NONE]

Return(v) == [kind |-> "return", value |-> v, errType |-> NONE, errMsg |-> NONE]

Raise(t, m) == [kind |-> "raise", value |-> EmptyDict, errType |-> t, errMsg |-> m]

ReturnGenerator == [kind |-> "generator", value |-> EmptyDict, errType |-> NONE, errMsg |-> NONE]

NoGen == [state |-> "none", payload |-> EmptyDict, endpoint |-> NONE]

NoReq ==
    [op |-> "none", text |-> NONE, model_type |-> NONE, model_role |-> NONE,
     prompt_text |-> NONE, prompt_audio |-> NONE, lang_tag |-> NONE,
     instruct_text |-> NONE, endpoint |-> NONE, payload |-> EmptyDict, failAt |-> 0]

\* --------------------------------------------------------- name resolution

\* Names bound by the module-level statements of tts.py.
ModuleNames ==
    {"concurrent", "IO", "Optional", "Any", "Enum", "I18nObject", "AIModelEntity",
     "FetchFrom", "ModelType", "InvokeAuthorizationError", "InvokeBadRequestError",
     "InvokeConnectionError", "InvokeError", "InvokeRateLimitError",
     "InvokeServerUnavailableError", "CredentialsValidateFailedError", "TTSModel",
     "requests", "TTSModelType", "SageMakerText2SpeechModel"}

\* Builtins the methods use.
Builtins == {"len", "min", "range", "enumerate", "str", "Exception", "RuntimeError"}

Resolves(name, locals) == name \in (locals \cup ModuleNames \cup Builtins)

RECURSIVE FirstUnbound(_, _)
\* The first name of a sequence of loads that does not resolve, or NONE.
FirstUnbound(loads, locals) ==
    IF loads = <<>> THEN NONE
    ELSE IF ~Resolves(Head(loads), locals) THEN Head(loads)
    ELSE FirstUnbound(Tail(loads), locals)

NameError(name) == Raise("NameError", "name '" \o name \o "' is not defined")

\* str(v) as an f-string prints it.
Str(v) == IF v = NONE THEN "None" ELSE v

\* ------------------------------------------------------ _build_tts_payload

\* The PresetVoice branch without its "and model_role".
build_tts_payload_NoRoleCheck(content_text, model_type, model_role, prompt_text, prompt_audio, lang_tag, instruct_text) ==
    IF model_type = PresetVoice
    THEN Return([tts_text |-> content_text, role |-> model_role])
    ELSE IF model_type = CloneVoice /\ Truthy(prompt_text) /\ Truthy(prompt_audio)
    THEN Return([tts_text |-> content_text, prompt_text |-> prompt_text,
                 prompt_audio |-> prompt_audio])
    ELSE IF model_type = CloneVoice_CrossLingual /\ Truthy(prompt_audio) /\ Truthy(lang_tag)
    THEN Return([tts_text |-> content_text, prompt_audio |-> prompt_audio,
                 lang_tag |-> lang_tag])
    ELSE IF model_type = InstructVoice /\ Truthy(instruct_text) /\ Truthy(model_role)
    THEN Return([tts_text |-> content_text, role |-> model_role,
                 instruct_text |-> instruct_text])
    ELSE Raise("RuntimeError", "Invalid params for " \o Str(model_type))

\* The CloneVoice_CrossLingual branch returning the CloneVoice keys as well.
build_tts_payload_ExtraKey(content_text, model_type, model_role, prompt_text, prompt_audio, lang_tag, instruct_text) ==
    IF model_type = PresetVoice /\ Truthy(model_role)
    THEN Return([tts_text |-> content_text, role |-> model_role])
    ELSE IF model_type = CloneVoice /\ Truthy(prompt_text) /\ Truthy(prompt_audio)
    THEN Return([tts_text |-> content_text, prompt_text |-> prompt_text,
                 prompt_audio |-> prompt_audio])
    ELSE IF model_type = CloneVoice_CrossLingual /\ Truthy(prompt_audio) /\ Truthy(lang_tag)
    THEN Return([tts_text |-> content_text, prompt_text |-> prompt_text,
                 prompt_audio |-> prompt_audio, lang_tag |-> lang_tag])
    ELSE IF model_type = InstructVoice /\ Truthy(instruct_text) /\ Truthy(model_role)
    THEN Return([tts_text |-> content_text, role |-> model_role,
                 instruct_text |-> instruct_text])
    ELSE Raise("RuntimeError", "Invalid params for " \o Str(model_type))

\* The request body for one voice mode, or RuntimeError when the mode is not
\* one of the four or a field the mode needs is None or empty.
build_tts_payload(content_text, model_type, model_role, prompt_text, prompt_audio, lang_tag, instruct_text) ==
    IF model_type = PresetVoice /\ Truthy(model_role)
    THEN Return([tts_text |-> content_text, role |-> model_role])
    ELSE IF model_type = CloneVoice /\ Truthy(prompt_text) /\ Truthy(prompt_audio)
    THEN Return([tts_text |-> content_text, prompt_text |-> prompt_text,
                 prompt_audio |-> prompt_audio])
    ELSE IF model_type = CloneVoice_CrossLingual /\ Truthy(prompt_audio) /\ Truthy(lang_tag)
    THEN Return([tts_text |-> content_text, prompt_audio |-> prompt_audio,
                 lang_tag |-> lang_tag])
    ELSE IF model_type = InstructVoice /\ Truthy(instruct_text) /\ Truthy(model_role)
    THEN Return([tts_text |-> content_text, role |-> model_role,
                 instruct_text |-> instruct_text])
    ELSE Raise("RuntimeError", "Invalid params for " \o Str(model_type))

\* A direct call of _build_tts_payload.
CallBuild(text, mt, role, pt, pa, lt, it) ==
    /\ req' = [NoReq EXCEPT !.op = "build", !.text = text, !.model_type = mt,
                            !.model_role = role, !.prompt_text = pt,
                            !.prompt_audio = pa, !.lang_tag = lt,
                            !.instruct_text = it]
    /\ res' = build_tts_payload(text, mt, role, pt, pa, lt, it)
    /\ gen' = NoGen
    /\ calls' = <<>>
    /\ running' = 0
    /\ fetches' = 0
    /\ emitted' = <<>>
    /\ UNCHANGED sagemaker_client

\* ------------------------------------------------------------------ _invoke

\* A key the credentials dict does not hold.
ABSENT == "<absent>"

\* credentials.get(key, default)
Get(v, default) == IF v = ABSENT THEN default ELSE v

\* Parameters of _invoke.
InvokeParams == {"self", "model", "tenant_id", "credentials", "content_text", "voice", "user"}

\* Names the five logging statements load, in order.
InvokeLogLoads ==
    <<"logger", "model", "logger", "tenant_id", "logger", "content_text",
      "logger", "voice", "logger", "user">>

\* Parameters of _tts_invoke_streaming.
StreamParams == {"self", "payload", "sagemaker_endpoint"}

\* Positional arguments _invoke passes to self._tts_invoke_streaming.
InvokeStreamArgs == <<"model", "credentials", "content_text", "voice">>

\* The outcome of _invoke for a model name, a credentials dict (a record of its
\* keys, ABSENT for a key it lacks) and a text, with the client handle it leaves
\* behind.  The call of _tts_invoke_streaming binds its arguments by position.
invoke(client, model, c, content_text) ==
    LET unbound == FirstUnbound(InvokeLogLoads, InvokeParams)
        payload == build_tts_payload(content_text,
                                     Get(c.model_type, PresetVoice),
                                     Get(c.model_role, NONE),
                                     Get(c.prompt_text, NONE),
                                     Get(c.prompt_audio, NONE),
                                     Get(c.lang_tag, NONE),
                                     Get(c.instruct_text, NONE))
    IN  IF unbound # NONE
        THEN [res |-> NameError(unbound), client |-> client, gen |-> NoGen]
        ELSE IF client = NONE /\ ~Resolves("boto3", InvokeParams)
        THEN [res |-> NameError("boto3"), client |-> client, gen |-> NoGen]
        ELSE LET client2 == IF client = NONE THEN "client" ELSE client
             IN  IF payload.kind = "raise"
                 THEN [res |-> payload, client |-> client2, gen |-> NoGen]
                 ELSE IF Len(InvokeStreamArgs) # Cardinality(StreamParams \ {"self"})
                 THEN [res |-> Raise("TypeError", "_tts_invoke_streaming() takes 3 positional arguments but 5 were given"),
                       client |-> client2, gen |-> NoGen]
                 ELSE [res |-> ReturnGenerator, client |-> client2,
                       gen |-> [state |-> "created", payload |-> model,
                                endpoint |-> c]]

\* The host calls _invoke.
CallInvoke(text, mt, role, pt, pa, lt, it, ep) ==
    LET c == [model_type |-> mt, model_role |-> role, prompt_text |-> pt,
              prompt_audio |-> pa, lang_tag |-> lt, instruct_text |-> it,
              sagemaker_endpoint |-> ep]
        out == invoke(sagemaker_client, "cosyvoice", c, text)
    IN  /\ req' = [NoReq EXCEPT !.op = "invoke", !.text = text, !.model_type = mt,
                                !.model_role = role, !.prompt_text = pt,
                                !.prompt_audio = pa, !.lang_tag = lt,
                                !.instruct_text = it, !.endpoint = ep]
        /\ res' = out.res
        /\ sagemaker_client' = out.client
        /\ gen' = out.gen
        /\ calls' = <<>>
        /\ running' = 0
        /\ fetches' = 0
        /\ emitted' = <<>>

\* ---------------------------------------------------- _tts_invoke_streaming

\* Names the first statement of the try block loads, in order:
\* self._get_model_word_limit(model, credentials).
StreamFirstLoads == <<"self", "model", "credentials">>

\* A direct call of _tts_invoke_streaming(payload, sagemaker_endpoint): a
\* generator function returns its generator without running any of its body.
\* failAt is the segment whose endpoint call the endpoint would fail (0: none).
CallStream(payload, endpoint, failAt) ==
    /\ req' = [NoReq EXCEPT !.op = "stream", !.text = payload.tts_text,
                            !.endpoint = endpoint, !.payload = payload,
                            !.failAt = failAt]
    /\ res' = ReturnGenerator
    /\ gen' = [state |-> "created", payload |-> payload, endpoint |-> endpoint]
    /\ calls' = <<>>
    /\ running' = 0
    /\ fetches' = 0
    /\ emitted' = <<>>
    /\ UNCHANGED sagemaker_client

\* except Exception as ex: raise InvokeBadRequestError(str(ex))
BadRequest(ex) == Raise("InvokeBadRequestError", ex.errMsg)

\* The consumer's first next() on the generator runs the body from the top:
\* the first statement of the try block loads a name that is bound nowhere,
\* the handler wraps the NameError, and the generator is finished.
StreamNext ==
    LET unbound == FirstUnbound(StreamFirstLoads, StreamParams)
    IN  /\ gen.state = "created"
        /\ unbound # NONE
        /\ res' = BadRequest(NameError(unbound))
        /\ gen' = [gen EXCEPT !.state = "closed"]
        /\ UNCHANGED <<sagemaker_client, req, calls, running, fetches, emitted>>

\* ------------------------------------------------------------ specification

\* Payloads a caller can hand to _tts_invoke_streaming: the ones
\* _build_tts_payload returns.
BuiltPayloads ==
    {build_tts_payload(t, mt, role, pt, pa, lt, it).value :
        t \in Texts, mt \in TTSModelType, role \in {"r1"}, pt \in {"pt"},
        pa \in {"s3://pa"}, lt \in {"<|en|>"}, it \in {"it"}}

Init ==
    /\ sagemaker_client = NONE
    /\ req = NoReq
    /\ res = NoResult
    /\ gen = NoGen
    /\ calls = <<>>
    /\ running = 0
    /\ fetches = 0
    /\ emitted = <<>>

\* No call leaves anything behind that a later call reads (the client handle
\* is never assigned), so a behaviour is one call on a fresh instance followed
\* by the consumption of what it returned.
Fresh == req.op = "none"

BuildOp ==
    \E t \in Texts, mt \in ModeInputs, role \in RoleInputs, pt \in PromptTextInputs,
       pa \in PromptAudioInputs, lt \in LangTagInputs, it \in InstructTextInputs :
        /\ Fresh
        /\ CallBuild(t, mt, role, pt, pa, lt, it)

InvokeOp ==
    \E t \in Texts, mt \in (ModeInputs \ {NONE}) \cup {ABSENT},
       role \in (RoleInputs \ {NONE}) \cup {ABSENT},
       pt \in (PromptTextInputs \ {NONE}) \cup {ABSENT},
       pa \in (PromptAudioInputs \ {NONE}) \cup {ABSENT},
       lt \in (LangTagInputs \ {NONE}) \cup {ABSENT},
       it \in (InstructTextInputs \ {NONE}) \cup {ABSENT},
       ep \in (EndpointInputs \ {NONE}) \cup {ABSENT} :
        /\ Fresh
        /\ CallInvoke(t, mt, role, pt, pa, lt, it, ep)

StreamOp ==
    \E p \in BuiltPayloads, ep \in EndpointInputs \ {NONE},
       k \in 0..MaxSegs :
        /\ Fresh
        /\ k <= NSeg(p.tts_text)
        /\ CallStream(p, ep, k)

Next == BuildOp \/ InvokeOp \/ StreamOp \/ StreamNext

Spec == Init /\ [][Next]_vars

\* ------------------------------------------------- what the claims refer to

\* Bytes of one emitted chunk: range(0, len(audio_bytes), 1024).
ChunkSize == 1024

\* _get_model_word_limit
get_model_word_limit == 600

\* Fields each voice mode requires, as the Payload Builder's contract lists them.
RequiredFields(mode) ==
    CASE mode = PresetVoice -> {"model_role"}
      [] mode = CloneVoice -> {"prompt_text", "prompt_audio"}
      [] mode = CloneVoice_CrossLingual -> {"prompt_audio", "lang_tag"}
      [] mode = InstructVoice -> {"model_role", "instruct_text"}
      [] OTHER -> {}

\* The request's fields as the callee reads them (credentials.get for _invoke).
Eff(r) ==
    [model_type |-> IF r.op = "invoke" THEN Get(r.model_type, PresetVoice) ELSE r.model_type,
     model_role |-> Get(r.model_role, NONE),
     prompt_text |-> Get(r.prompt_text, NONE),
     prompt_audio |-> Get(r.prompt_audio, NONE),
     lang_tag |-> Get(r.lang_tag, NONE),
     instruct_text |-> Get(r.instruct_text, NONE)]

\* The mode is unsupported, or a field it requires is absent or empty.
Invalid(r) ==
    \/ Eff(r).model_type \notin TTSModelType
    \/ \E f \in RequiredFields(Eff(r).model_type) : Eff(r)[f] \in {NONE, ""}

\* The payload key that carries each required field.
KeyOf(f) == IF f = "model_role" THEN "role" ELSE f

\* The documented payload of a valid request: the text and the mode's fields.
DocumentedPayload(r) ==
    [k \in {"tts_text"} \cup {KeyOf(f) : f \in RequiredFields(Eff(r).model_type)} |->
        IF k = "tts_text" THEN r.text
        ELSE IF k = "role" THEN Eff(r).model_role
        ELSE Eff(r)[k]]

\* Bytes of the audio the endpoint renders for segment i of a text.
AudioLen(t, i) == 2 * ChunkSize + 100 * i

RECURSIVE ChunksFrom(_, _, _)
\* The slices audio_bytes[off : off + 1024] of segment i's audio, from off on.
ChunksFrom(i, n, off) ==
    IF off >= n THEN <<>>
    ELSE <<[seg |-> i, off |-> off,
            len |-> IF n - off < ChunkSize THEN n - off ELSE ChunkSize]>>
         \o ChunksFrom(i, n, off + ChunkSize)

RECURSIVE AudioOfSegments(_, _)
\* audio(1) ++ ... ++ audio(k), each in chunks.
AudioOfSegments(t, k) ==
    IF k = 0 THEN <<>>
    ELSE AudioOfSegments(t, k - 1) \o ChunksFrom(k, AudioLen(t, k), 0)

\* Message of the error the endpoint raises for a failing segment.
EndpointError(i) == "endpoint error for segment " \o ToString(i)

BuildDone == req.op = "build"

InvokeDone == req.op = "invoke"

StreamDone == req.op = "stream" /\ gen.state = "closed"

IsLong(t) == TextLen(t) > get_model_word_limit

PoolSize(n) == IF n < 4 THEN n ELSE 4

\* ------------------------------------------------------------------- claims

\* C1: for a long text of N segments whose endpoint calls all succeed, the
\* chunks the stream has emitted when it ends are audio(1) ++ ... ++ audio(N),
\* in segment order.
C1_EmitsInSegmentOrder ==
    (StreamDone /\ IsLong(req.text) /\ req.failAt = 0)
        => emitted = AudioOfSegments(req.text, NSeg(req.text))

\* C2: on the long-text path N endpoint calls are sent and the body of the
\* i-th carries segment i's text, with the payload's other fields.
C2_EachCallCarriesItsSegment ==
    (StreamDone /\ IsLong(req.text) /\ req.failAt = 0)
        => /\ Len(calls) = NSeg(req.text)
           /\ \A i \in 1..NSeg(req.text) :
                calls[i].body = [req.payload EXCEPT !.tts_text = Segment(req.text, i)]

\* C3: an _invoke with valid credentials hands the payload the builder makes
\* and the credentials' endpoint to _tts_invoke_streaming and returns its stream.
C3_InvokeHandsPayloadToStream ==
    (InvokeDone /\ ~Invalid(req))
        => /\ res.kind = "generator"
           /\ gen.state = "created"
           /\ gen.payload = DocumentedPayload(req)
           /\ gen.endpoint = req.endpoint

\* C5: when the endpoint fails the call of segment k of a long text, the
\* stream ends having emitted exactly the chunks of segments 1..k-1, with an
\* InvokeBadRequestError carrying the endpoint error's message.
C5_FailureEndsStreamWithBadRequest ==
    (StreamDone /\ IsLong(req.text) /\ req.failAt > 0)
        => /\ emitted = AudioOfSegments(req.text, req.failAt - 1)
           /\ res = Raise("InvokeBadRequestError", EndpointError(req.failAt))

\* C6: _build_tts_payload fails with the invalid-parameters error (RuntimeError
\* "Invalid params for <mode>") and returns no payload whenever the mode is not
\* one of the four or a field it requires is absent or empty.
C6_InvalidParamsRaise ==
    (BuildDone /\ Invalid(req))
        => res = Raise("RuntimeError", "Invalid params for " \o Str(req.model_type))

\* A required field of CloneVoice is empty while the other one is supplied.
C6_Witness ==
    /\ BuildDone
    /\ req.model_type = CloneVoice
    /\ req.prompt_text = "pt"
    /\ req.prompt_audio = ""
    /\ res.kind = "raise"

\* C7: for a supported mode with its required fields present,
\* _build_tts_payload returns exactly the documented keys with the values
\* passed in, whatever other fields are supplied.
C7_ValidParamsPayload ==
    (BuildDone /\ ~Invalid(req))
        => res = Return(DocumentedPayload(req))

\* CloneVoice_CrossLingual with every field supplied, also the ones it ignores.
C7_Witness ==
    /\ BuildDone
    /\ req.model_type = CloneVoice_CrossLingual
    /\ req.model_role = "r1"
    /\ req.prompt_text = "pt"
    /\ req.prompt_audio = "s3://pa"
    /\ req.lang_tag = "<|en|>"
    /\ req.instruct_text = "it"
    /\ res.kind = "return"

\* C8: an _invoke whose credentials lack a field the mode requires fails in
\* payload construction (the invalid-parameters error), with no endpoint call
\* and no audio fetch.
C8_InvalidCredentialsFailInBuilder ==
    (InvokeDone /\ Invalid(req))
        => /\ res = Raise("RuntimeError",
                          "Invalid params for " \o Str(Eff(req).model_type))
           /\ calls = <<>>
           /\ fetches = 0

\* C9: for a text of at most 600 characters the stream has made exactly one
\* endpoint call and one audio fetch when it ends.
C9_ShortTextOneCall ==
    (StreamDone /\ ~IsLong(req.text) /\ req.failAt = 0)
        => /\ Len(calls) = 1
           /\ fetches = 1

\* C10: on the long-text path at most min(4, N) endpoint calls run at a time,
\* and N have been dispatched when the stream ends.
C10_PoolBoundAndCallCount ==
    /\ (req.op = "stream" /\ IsLong(req.text))
        => running <= PoolSize(NSeg(req.text))
    /\ (StreamDone /\ IsLong(req.text) /\ req.failAt = 0)
        => Len(calls) = NSeg(req.text)

====
